---- MODULE Spec2Model ----
(***************************************************************************)
(* A model of app.py, the TSLA dashboard: load_data (CSV cleaning),         *)
(* candlestick_chart (annotation of the last max_rows rows), init_gemini /  *)
(* ask_ai (the AI question path) and main (one page run), together with    *)
(* the hosting framework's caches and its re-run-on-interaction loop.      *)
(*                                                                         *)
(* Text is a sequence of one-character strings, so that the conversions    *)
(* the code applies to cells (strip, lower, upper, to_numeric,             *)
(* to_datetime, ast.literal_eval) are computed character by character.     *)
(***************************************************************************)
EXTENDS Integers, Sequences, FiniteSets, TLC

\* ------------------------------------------------------------------ bounds

\* The number of hand-written rows at the head of an input file.
MaxFileRows == 2

\* The number of page runs (the first load and the re-runs after it).
MaxRuns == 3

\* ------------------------------------------------------------ text helpers

Digits == <<"0", "1", "2", "3", "4", "5", "6", "7", "8", "9">>

LowerCase ==
    <<"a", "b", "c", "d", "e", "f", "g", "h", "i", "j", "k", "l", "m",
      "n", "o", "p", "q", "r", "s", "t", "u", "v", "w", "x", "y", "z">>

UpperCase ==
    <<"A", "B", "C", "D", "E", "F", "G", "H", "I", "J", "K", "L", "M",
      "N", "O", "P", "Q", "R", "S", "T", "U", "V", "W", "X", "Y", "Z">>

\* The position of character c in alphabet a, 0 when it is not in it.
IndexIn(a, c) ==
    IF \E i \in 1..Len(a) : a[i] = c
    THEN CHOOSE i \in 1..Len(a) : a[i] = c
    ELSE 0

IsDigit(c) == IndexIn(Digits, c) # 0

DigitVal(c) == IndexIn(Digits, c) - 1

\* The code-point order of the characters the model uses: space, the
\* punctuation, the digits, the capitals, then the small letters.
Ord(c) ==
    CASE c = " " -> 32
      [] c = "'" -> 39
      [] c = "," -> 44
      [] IsDigit(c) -> 48 + DigitVal(c)
      [] IndexIn(UpperCase, c) # 0 -> 64 + IndexIn(UpperCase, c)
      [] c = "[" -> 91
      [] c = "]" -> 93
      [] IndexIn(LowerCase, c) # 0 -> 96 + IndexIn(LowerCase, c)
      [] OTHER -> 127

\* str.upper, one character: a small letter becomes its capital.
UpperChar(c) ==
    IF IndexIn(LowerCase, c) # 0 THEN UpperCase[IndexIn(LowerCase, c)] ELSE c

\* str.lower, one character: a capital becomes its small letter.
LowerChar(c) ==
    IF IndexIn(UpperCase, c) # 0 THEN LowerCase[IndexIn(UpperCase, c)] ELSE c

\* .str.upper() of line 33.
str_upper(t) == [i \in 1..Len(t) |-> UpperChar(t[i])]

\* .str.lower() of line 14.
str_lower(t) == [i \in 1..Len(t) |-> LowerChar(t[i])]

RECURSIVE lstrip(_)
lstrip(t) ==
    IF t # <<>> /\ Head(t) = " " THEN lstrip(Tail(t)) ELSE t

RECURSIVE rstrip(_)
rstrip(t) ==
    IF t # <<>> /\ t[Len(t)] = " " THEN rstrip(SubSeq(t, 1, Len(t) - 1)) ELSE t

\* .str.strip() of line 14.
str_strip(t) == rstrip(lstrip(t))

AllDigits(t) == t # <<>> /\ \A i \in 1..Len(t) : IsDigit(t[i])

\* The number a text of decimal digits denotes.
RECURSIVE ParseInt(_)
ParseInt(t) ==
    IF t = <<>> THEN 0
    ELSE 10 * ParseInt(SubSeq(t, 1, Len(t) - 1)) + DigitVal(t[Len(t)])

\* ----------------------------------------------------- cell values (pandas)

\* A numeric or date cell: a number, or the missing value (NaN / NaT).
Num(n) == [isna |-> FALSE, v |-> n]

NaN == [isna |-> TRUE, v |-> 0]

NaT == [isna |-> TRUE, v |-> 0]

\* pd.read_csv: an empty field is read as the missing value, not as text.
IsMissing(cell) == cell = <<>>

\* pd.to_numeric(..., errors='coerce') on one cell (line 23): the number the
\* text denotes, NaN for a missing cell and for text that is no number.
to_numeric(cell) ==
    IF IsMissing(cell) THEN NaN
    ELSE IF AllDigits(str_strip(cell)) THEN Num(ParseInt(str_strip(cell)))
    ELSE NaN

\* pd.to_datetime on one cell (line 17) raises on text that is no date; a
\* date is written as its day number.
to_datetime_raises(cell) == ~IsMissing(cell) /\ ~AllDigits(cell)

\* pd.to_datetime on one cell that it accepts: NaT for a missing cell.
to_datetime(cell) == IF IsMissing(cell) THEN NaT ELSE Num(ParseInt(cell))

\* ------------------------------------------------------- ast.literal_eval

\* A Python value of the literal fragment the model parses: an int, a
\* quoted string, or a list of such values.
PyInt(n) == [kind |-> "int", val |-> n, items |-> <<>>]

PyStr(chars) == [kind |-> "str", val |-> 0, items |-> chars]

PyList(elems) == [kind |-> "list", val |-> 0, items |-> elems]

\* The result of parsing at a position: the value and the position after it.
ParseOk(value, next) == [ok |-> TRUE, value |-> value, next |-> next]

ParseFail == [ok |-> FALSE, value |-> PyInt(0), next |-> 0]

RECURSIVE SkipSpaces(_, _)
SkipSpaces(t, i) ==
    IF i <= Len(t) /\ t[i] = " " THEN SkipSpaces(t, i + 1) ELSE i

\* The position after the run of digits that starts at i.
RECURSIVE DigitsEnd(_, _)
DigitsEnd(t, i) ==
    IF i <= Len(t) /\ IsDigit(t[i]) THEN DigitsEnd(t, i + 1) ELSE i

\* The position of the next quote at or after i, 0 when there is none.
RECURSIVE QuoteAt(_, _)
QuoteAt(t, i) ==
    IF i > Len(t) THEN 0
    ELSE IF t[i] = "'" THEN i
    ELSE QuoteAt(t, i + 1)

\* Python rejects a decimal integer literal that has a leading zero and a
\* non-zero digit after it.
LeadingZero(t, i) ==
    /\ t[i] = "0"
    /\ \E k \in (i + 1)..(DigitsEnd(t, i) - 1) : t[k] # "0"

RECURSIVE ParseValue(_, _)
RECURSIVE ParseItems(_, _, _)

\* One literal starting at position i0 (after blanks).
ParseValue(t, i0) ==
    LET i == SkipSpaces(t, i0) IN
    IF i > Len(t) THEN ParseFail
    ELSE IF IsDigit(t[i])
    THEN IF LeadingZero(t, i) THEN ParseFail
         ELSE ParseOk(PyInt(ParseInt(SubSeq(t, i, DigitsEnd(t, i) - 1))), DigitsEnd(t, i))
    ELSE IF t[i] = "'"
    THEN IF QuoteAt(t, i + 1) = 0 THEN ParseFail
         ELSE ParseOk(PyStr(SubSeq(t, i + 1, QuoteAt(t, i + 1) - 1)), QuoteAt(t, i + 1) + 1)
    ELSE IF t[i] = "[" THEN ParseItems(t, i + 1, <<>>)
    ELSE ParseFail

\* The elements of a list display after its "[" (or after a comma), with
\* the elements read so far in acc; a trailing comma is allowed.
ParseItems(t, i0, acc) ==
    LET i == SkipSpaces(t, i0) IN
    IF i > Len(t) THEN ParseFail
    ELSE IF t[i] = "]" THEN ParseOk(PyList(acc), i + 1)
    ELSE LET r == ParseValue(t, i)
             j == SkipSpaces(t, r.next)
         IN  IF ~r.ok \/ j > Len(t) THEN ParseFail
             ELSE IF t[j] = "," THEN ParseItems(t, j + 1, Append(acc, r.value))
             ELSE IF t[j] = "]" THEN ParseOk(PyList(Append(acc, r.value)), j + 1)
             ELSE ParseFail

\* ast.literal_eval(x) (line 27): the value of the whole text, or a raise
\* (ok = FALSE) when the text is no literal.
literal_eval(t) ==
    LET r == ParseValue(t, 1) IN
    IF r.ok /\ SkipSpaces(t, r.next) = Len(t) + 1 THEN r ELSE ParseFail

\* ------------------------------------------------- Python's min and max

\* The first position at which sequences a and b differ, 0 when one is a
\* prefix of the other.
FirstDiff(a, b) ==
    LET n == IF Len(a) < Len(b) THEN Len(a) ELSE Len(b)
        D == {i \in 1..n : a[i] # b[i]}
    IN  IF D = {} THEN 0 ELSE CHOOSE i \in D : \A j \in D : i <= j

\* Python's a < b on two values: "lt", "ge", or "err" for the TypeError
\* that comparing values of different types raises.
RECURSIVE PyLess(_, _)
PyLess(a, b) ==
    IF a.kind # b.kind THEN "err"
    ELSE IF a.kind = "int" THEN (IF a.val < b.val THEN "lt" ELSE "ge")
    ELSE LET d == FirstDiff(a.items, b.items) IN
         IF d = 0 THEN (IF Len(a.items) < Len(b.items) THEN "lt" ELSE "ge")
         ELSE IF a.kind = "str"
         THEN (IF Ord(a.items[d]) < Ord(b.items[d]) THEN "lt" ELSE "ge")
         ELSE PyLess(a.items[d], b.items[d])

\* What iterating over a value yields: the elements of a list, the
\* characters of a string; an int is not iterable.
PyIterable(v) == v.kind # "int"

PyElements(v) ==
    IF v.kind = "str" THEN [i \in 1..Len(v.items) |-> PyStr(<<v.items[i]>>)]
    ELSE v.items

PyRaised == [raised |-> TRUE, value |-> PyInt(0)]

PyReturn(v) == [raised |-> FALSE, value |-> v]

\* The scan of min (smallest = TRUE) or max over s from position i on, with
\* the best element so far in m.
RECURSIVE Scan(_, _, _, _)
Scan(s, i, m, smallest) ==
    IF i > Len(s) THEN PyReturn(m)
    ELSE LET c == IF smallest THEN PyLess(s[i], m) ELSE PyLess(m, s[i]) IN
         IF c = "err" THEN PyRaised
         ELSE Scan(s, i + 1, IF c = "lt" THEN s[i] ELSE m, smallest)

\* min(v) of lines 52 and 56, for a truthy v.
py_min(v) ==
    IF ~PyIterable(v) THEN PyRaised
    ELSE Scan(PyElements(v), 2, PyElements(v)[1], TRUE)

\* max(v) of lines 52 and 56, for a truthy v.
py_max(v) ==
    IF ~PyIterable(v) THEN PyRaised
    ELSE Scan(PyElements(v), 2, PyElements(v)[1], FALSE)

\* The truth value of `if row['support_list']:` (lines 50 and 54).
Truthy(v) == IF v.kind = "int" THEN v.val # 0 ELSE v.items # <<>>

\* ------------------------------------------------------------ the CSV file

\* The column names the code looks up, as text.
COL_timestamp == <<"t", "i", "m", "e", "s", "t", "a", "m", "p">>

COL_open == <<"o", "p", "e", "n">>

COL_high == <<"h", "i", "g", "h">>

COL_low == <<"l", "o", "w">>

COL_close == <<"c", "l", "o", "s", "e">>

COL_support == <<"s", "u", "p", "p", "o", "r", "t">>

COL_resistance == <<"r", "e", "s", "i", "s", "t", "a", "n", "c", "e">>

COL_direction == <<"d", "i", "r", "e", "c", "t", "i", "o", "n">>

\* A header line with all eight columns, in mixed case and with blanks
\* around some names.
HeaderFull ==
    << <<" ", "T", "i", "m", "e", "s", "t", "a", "m", "p">>,
       <<"O", "p", "e", "n">>, <<"H", "I", "G", "H">>, <<"l", "o", "w", " ">>,
       COL_close, COL_support, <<"R", "e", "s", "i", "s", "t", "a", "n", "c", "e">>,
       COL_direction >>

\* Header lines that lack a column.
HeaderNoTimestamp == Tail(HeaderFull)

HeaderNoClose == SelectSeq(HeaderFull, LAMBDA h : h # COL_close)

HeaderNoSupport == SelectSeq(HeaderFull, LAMBDA h : h # COL_support)

HeaderNoDirection == SelectSeq(HeaderFull, LAMBDA h : h # COL_direction)

Headers ==
    {HeaderFull, HeaderNoTimestamp, HeaderNoClose, HeaderNoSupport, HeaderNoDirection}

\* One line of the file: the text of each of its eight fields.
RawRow(ts, o, h, l, c, sup, res, dir) ==
    [timestamp |-> ts, open |-> o, high |-> h, low |-> l, close |-> c,
     support |-> sup, resistance |-> res, direction |-> dir]

\* The lines an input file's head is drawn from: clean rows, rows with a
\* missing or non-numeric price, a row with no timestamp, a row whose
\* timestamp is no date, and support / resistance / direction cells of
\* every shape (a list, an empty list, a bare number, a quoted string, a
\* list of mixed types, a cut-off list, words, nothing).
RowSamples ==
    << RawRow(<<"2">>, <<"5">>, <<"9">>, <<"4">>, <<"7">>,
              <<"[", "3", ",", " ", "4", "]">>, <<"[", "9", "]">>,
              <<"l", "o", "n", "g">>),
       RawRow(<<"1">>, <<"6">>, <<"8">>, <<"5">>, <<"6">>,
              <<"[", "8", ",", "2", ",", "5", "]">>, <<"[", "]">>,
              <<"S", "h", "o", "r", "t">>),
       RawRow(<<"3">>, <<"x">>, <<"9">>, <<"4">>, <<"7">>,
              <<"[", "6", "]">>, <<"[", "7", ",", "]">>,
              <<"L", "O", "N", "G">>),
       RawRow(<<"1">>, <<"5">>, <<"9">>, <<"4">>, <<>>,
              <<"[", "2", "]">>, <<"[", "9", "]">>,
              <<"N", "O", "N", "E">>),
       RawRow(<<>>, <<"7">>, <<"9">>, <<"6">>, <<"8">>,
              <<"[", "4", ",">>, <<>>,
              <<>>),
       RawRow(<<"2">>, <<"4">>, <<"6">>, <<"3">>, <<"5">>,
              <<"'", "h", "i", "'">>, <<"[", "7", ",", "6", "]">>,
              <<"b", "u", "y">>),
       RawRow(<<"3">>, <<"5">>, <<"7">>, <<"4">>, <<"6">>,
              <<"5">>, <<"[", "9", ",", "'", "a", "'", "]">>,
              <<"n", "o", "n", "e">>),
       RawRow(<<"z", "z">>, <<"5">>, <<"7">>, <<"4">>, <<"6">>,
              <<"[", "3", "]">>, <<"[", "9", "]">>,
              <<"l", "o", "n", "g">>) >>

\* The decimal digits of a natural number.
RECURSIVE ToDigits(_)
ToDigits(n) ==
    IF n < 10 THEN <<Digits[n + 1]>>
    ELSE Append(ToDigits(n \div 10), Digits[(n % 10) + 1])

\* The k-th of the clean, dated lines that follow a file's head: each is
\* newer than every line of RowSamples and newer than the one before it.
PadRow(k) ==
    RawRow(ToDigits(10 + k), <<"5">>, ToDigits(10 + (k % 3)), <<"4">>, <<"7">>,
           <<"[", "3", ",", " ", "5", "]">>,
           IF k % 2 = 0 THEN <<"[", "1", "2", "]">> ELSE <<"[", "]">>,
           CASE k % 3 = 0 -> <<"l", "o", "n", "g">>
             [] k % 3 = 1 -> <<"S", "H", "O", "R", "T">>
             [] OTHER -> <<"N", "o", "n", "e">>)

\* TSLA_data.csv: whether it exists, its header line, and its lines (the
\* head, then `pad` lines of PadRow).
File(exists, header, head, pad) ==
    [exists |-> exists, header |-> header, head |-> head, pad |-> pad]

\* The data lines of the file, in file order.
FileRows(f) == f.head \o [k \in 1..f.pad |-> PadRow(k)]

\* ---------------------------------------------------------------- load_data

\* df.columns after line 14: the header's names, stripped and lower-cased.
Columns(f) == {str_lower(str_strip(f.header[i])) : i \in 1..Len(f.header)}

\* Whether pandas reads a column as text (dtype object): some cell of it is
\* neither missing nor a number.  The cells of a numeric column are floats.
ColumnIsText(cells) ==
    \E i \in 1..Len(cells) : ~IsMissing(cells[i]) /\ ~AllDigits(str_strip(cells[i]))

\* A cell as parse_list receives it: text, or a non-text value (a float of
\* a numeric column, or NaN for an empty field).
Cell(text, columnIsText) == [isstr |-> columnIsText /\ ~IsMissing(text), text |-> text]

\* parse_list without its except clause: literal_eval's raise leaves it.
parse_list_no_except(x) ==
    IF x.isstr
    THEN (IF literal_eval(x.text).ok
          THEN PyReturn(literal_eval(x.text).value)
          ELSE PyRaised)
    ELSE PyReturn(PyList(<<>>))

\* parse_list (lines 25-29): literal_eval's value for text, the empty list
\* for anything else and, by the except clause, when literal_eval raises.
parse_list(x) ==
    IF x.isstr
    THEN (IF literal_eval(x.text).ok
          THEN PyReturn(literal_eval(x.text).value)
          ELSE PyReturn(PyList(<<>>)))
    ELSE PyReturn(PyList(<<>>))

TXT_None == <<"N", "o", "n", "e">>

\* Line 33 without .str.upper().
normalize_direction_no_upper(cell) ==
    IF IsMissing(cell) THEN TXT_None ELSE cell

\* .fillna('None').astype(str).str.upper() on one direction cell (line 33);
\* the direction cells of the model are words, which astype(str) leaves as
\* they are.
normalize_direction(cell) ==
    str_upper(IF IsMissing(cell) THEN TXT_None ELSE cell)

\* One row of the frame after lines 17-33, from line r of the file; idx is
\* the row's index label (its position in the file).
FrameRow(r, idx, supIsText, resIsText) ==
    [idx |-> idx,
     date |-> to_datetime(r.timestamp),
     open |-> to_numeric(r.open),
     high |-> to_numeric(r.high),
     low |-> to_numeric(r.low),
     close |-> to_numeric(r.close),
     support_list |-> parse_list(Cell(r.support, supIsText)).value,
     resistance_list |-> parse_list(Cell(r.resistance, resIsText)).value,
     direction |-> normalize_direction(r.direction)]

SupportIsText(raw) == ColumnIsText([k \in 1..Len(raw) |-> raw[k].support])

ResistanceIsText(raw) == ColumnIsText([k \in 1..Len(raw) |-> raw[k].resistance])

\* The frame after lines 17-33: one row per line of the file.
Frame(raw) ==
    LET supIsText == SupportIsText(raw)
        resIsText == ResistanceIsText(raw)
    IN  [i \in 1..Len(raw) |-> FrameRow(raw[i], i - 1, supIsText, resIsText)]

\* Whether .apply(parse_list) (lines 31-32) raises: parse_list does on
\* some cell.
ApplyRaises(raw) ==
    LET supIsText == SupportIsText(raw)
        resIsText == ResistanceIsText(raw)
    IN  \E i \in 1..Len(raw) :
            \/ parse_list(Cell(raw[i].support, supIsText)).raised
            \/ parse_list(Cell(raw[i].resistance, resIsText)).raised

\* dropna with 'close' left out of its subset.
dropna_without_close(rows) ==
    SelectSeq(rows, LAMBDA r : ~(r.open.isna \/ r.high.isna \/ r.low.isna))

\* df.dropna(subset=['open', 'high', 'low', 'close']) (line 35): the rows
\* in which none of the four is missing.
dropna(rows) ==
    SelectSeq(rows, LAMBDA r : ~(r.open.isna \/ r.high.isna \/ r.low.isna \/ r.close.isna))

\* The order sort_values('date') produces: dated rows by date, rows with no
\* date (NaT) last in file order.  The default sort is not stable, so rows
\* of equal date come in file order (ties = "asc") or against it ("desc").
TieOrders == {"asc", "desc"}

DateBefore(a, b, ties) ==
    IF a.date.isna # b.date.isna THEN b.date.isna
    ELSE IF a.date.isna THEN a.idx < b.idx
    ELSE IF a.date.v # b.date.v THEN a.date.v < b.date.v
    ELSE IF ties = "asc" THEN a.idx < b.idx
    ELSE a.idx > b.idx

\* Line 35 without .sort_values('date'): the rows stay in file order.
sort_values_omitted(rows, ties) == rows

\* .sort_values('date') (line 35).
sort_values(rows, ties) == SortSeq(rows, LAMBDA a, b : DateBefore(a, b, ties))

MSG_no_timestamp == "No 'timestamp' column found."

MSG_failed_to_load == "Failed to load data"

\* What load_data returns and what it displays: the table (the empty table
\* on every failure) and its st.error message, "" when there is none.
Loaded(df, error) == [df |-> df, error |-> error]

\* load_data (lines 11-39) on file f.
load_data(f, ties) ==
    LET raw == FileRows(f)
        cols == Columns(f)
    IN  IF ~f.exists THEN Loaded(<<>>, MSG_failed_to_load)
        ELSE IF COL_timestamp \notin cols THEN Loaded(<<>>, MSG_no_timestamp)
        ELSE IF \E i \in 1..Len(raw) : to_datetime_raises(raw[i].timestamp)
        THEN Loaded(<<>>, MSG_failed_to_load)
        ELSE IF ~({COL_open, COL_high, COL_low, COL_close, COL_support,
                   COL_resistance, COL_direction} \subseteq cols)
        THEN Loaded(<<>>, MSG_failed_to_load)
        ELSE IF ApplyRaises(raw) THEN Loaded(<<>>, MSG_failed_to_load)
        ELSE Loaded(sort_values(dropna(Frame(raw)), ties), "")

\* -------------------------------------------------------- candlestick_chart

\* The default of candlestick_chart's max_rows parameter.
max_rows == 100

TXT_LONG == <<"L", "O", "N", "G">>

TXT_SHORT == <<"S", "H", "O", "R", "T">>

TXT_NONE == <<"N", "O", "N", "E">>

\* The signals table of line 59, in its iteration order.
signals ==
    << [direction |-> TXT_LONG, symbol |-> "triangle-up", color |-> "green"],
       [direction |-> TXT_SHORT, symbol |-> "triangle-down", color |-> "red"],
       [direction |-> TXT_NONE, symbol |-> "circle", color |-> "yellow"] >>

\* tail with its window one row too long.
tail_off_by_one(df, n) ==
    IF Len(df) <= n + 1 THEN df ELSE SubSeq(df, Len(df) - n, Len(df))

\* df.tail(n) (line 47): the last n rows, all rows when there are fewer.
tail(df, n) ==
    IF Len(df) <= n THEN df ELSE SubSeq(df, Len(df) - n + 1, Len(df))

\* The rectangle fig.add_shape draws for one list of levels of one row
\* (lines 51-53 and 55-57); row is the index label of the row it is drawn
\* for, x its date.
Shape(r, band, levels) ==
    [row |-> r.idx, x |-> r.date, band |-> band,
     y0 |-> py_min(levels).value, y1 |-> py_max(levels).value]

\* Whether drawing the band of `levels` raises: min and max do.
BandRaises(levels) ==
    Truthy(levels) /\ (py_min(levels).raised \/ py_max(levels).raised)

\* The body of the loop of lines 49-57 for one row: the shapes it adds.
RowShapes(r) ==
    (IF Truthy(r.support_list)
     THEN <<Shape(r, "support", r.support_list)>> ELSE <<>>)
    \o (IF Truthy(r.resistance_list)
        THEN <<Shape(r, "resistance", r.resistance_list)>> ELSE <<>>)

RowRaises(r) == BandRaises(r.support_list) \/ BandRaises(r.resistance_list)

RECURSIVE AllShapes(_, _)
AllShapes(rows, i) ==
    IF i > Len(rows) THEN <<>> ELSE RowShapes(rows[i]) \o AllShapes(rows, i + 1)

\* The height of a row's marker, in hundredths (lines 64-66): 0.98 of the
\* low for LONG, 1.02 of the high for SHORT, the mid price otherwise.
MarkerY100(r, direction) ==
    IF direction = TXT_LONG THEN r.low.v * 98
    ELSE IF direction = TXT_SHORT THEN r.high.v * 102
    ELSE (r.high.v + r.low.v) * 50

\* The scatter trace of one signal (lines 61-72), <<>> when no row of the
\* trimmed table has that direction.
SignalTrace(trimmed, sig) ==
    LET subset == SelectSeq(trimmed, LAMBDA r : r.direction = sig.direction) IN
    IF subset = <<>> THEN <<>>
    ELSE << [name |-> sig.direction, symbol |-> sig.symbol, color |-> sig.color,
             points |-> [i \in 1..Len(subset) |->
                            [row |-> subset[i].idx, x |-> subset[i].date,
                             y100 |-> MarkerY100(subset[i], sig.direction)]]] >>

\* The figure: how many candles the price trace holds, the shapes and the
\* signal traces.
Figure(candles, shapes, traces) ==
    [candles |-> candles, shapes |-> shapes, traces |-> traces]

NoFigure == Figure(0, <<>>, <<>>)

\* candlestick_chart trimming the caller's frame in place instead of taking
\* a trimmed copy of it.
candlestick_chart_in_place(df, n) ==
    [raised |-> \E i \in 1..Len(df) : i > Len(df) - n /\ RowRaises(df[i]),
     df |-> IF Len(df) <= n THEN df ELSE SubSeq(df, Len(df) - n + 1, Len(df)),
     fig |-> NoFigure]

\* candlestick_chart (lines 41-77): the figure, or a raise out of the loop
\* over the trimmed rows; and the caller's frame after the call, which the
\* function only reads.
candlestick_chart(df, n) ==
    LET trimmed == tail(df, n) IN
    IF \E i \in 1..Len(trimmed) : RowRaises(trimmed[i])
    THEN [raised |-> TRUE, df |-> df, fig |-> NoFigure]
    ELSE [raised |-> FALSE, df |-> df,
          fig |-> Figure(Len(df), AllShapes(trimmed, 1),
                         SignalTrace(trimmed, signals[1])
                         \o SignalTrace(trimmed, signals[2])
                         \o SignalTrace(trimmed, signals[3]))]

\* ------------------------------------------------------ init_gemini, ask_ai

\* What the body of init_gemini's try block can do (lines 83-85): the
\* secret store has no GEMINI_API_KEY, genai.configure raises, the
\* GenerativeModel constructor raises, or the client is built.
InitOutcomes == {"no_secret", "configure_raises", "model_raises", "ok"}

\* What the body of ask_ai's try block can do (lines 105-106):
\* generate_content raises (invalid key, network or API error), the
\* response holds no text so that response.text raises, or an answer.
GenOutcomes == {"api_error", "no_text", "answer"}

\* The st.cache_resource slot of init_gemini: <<>> before the first call,
\* then the cached return value, "None" or "model".
NoCache == <<>>

\* init_gemini (lines 79-88) behind st.cache_resource: the value returned
\* and the slot after the call.
init_gemini(slot, initOutcome) ==
    IF slot # NoCache THEN [model |-> slot[1], slot |-> slot]
    ELSE IF initOutcome = "ok" THEN [model |-> "model", slot |-> <<"model">>]
    ELSE [model |-> "None", slot |-> <<"None">>]

\* The st.error of line 87, displayed by the call that runs the body and
\* replayed by the cache with the None it keeps.
MSG_init_error == "Gemini init error"

InitMessages(slot, initOutcome) ==
    IF init_gemini(slot, initOutcome).model = "None" THEN <<MSG_init_error>> ELSE <<>>

MSG_unavailable == "Gemini model unavailable. Check your API key."

MSG_ai_error == "Gemini AI error"

MSG_answer == "response.text"

\* What a call of ask_ai comes to: a raise or a returned string (an error
\* message or the model's answer), the requests sent to the AI endpoint,
\* and the st.cache_resource slot afterwards.
Asked(raised, kind, text, requests, slot) ==
    [raised |-> raised, kind |-> kind, text |-> text, requests |-> requests,
     slot |-> slot]

\* ask_ai without its try / except: a raise of generate_content or of
\* response.text leaves it.
ask_ai_no_except(slot, initOutcome, genOutcome) ==
    LET m == init_gemini(slot, initOutcome) IN
    IF m.model = "None" THEN Asked(FALSE, "error", MSG_unavailable, 0, m.slot)
    ELSE IF genOutcome = "answer" THEN Asked(FALSE, "answer", MSG_answer, 1, m.slot)
    ELSE Asked(TRUE, "error", MSG_ai_error, 1, m.slot)

\* ask_ai sending the request a second time when the first one fails.
ask_ai_retry(slot, initOutcome, genOutcome) ==
    LET m == init_gemini(slot, initOutcome) IN
    IF m.model = "None" THEN Asked(FALSE, "error", MSG_unavailable, 0, m.slot)
    ELSE IF genOutcome = "answer" THEN Asked(FALSE, "answer", MSG_answer, 1, m.slot)
    ELSE Asked(FALSE, "error", MSG_ai_error, 2, m.slot)

\* ask_ai (lines 90-108).
ask_ai(slot, initOutcome, genOutcome) ==
    LET m == init_gemini(slot, initOutcome) IN
    IF m.model = "None" THEN Asked(FALSE, "error", MSG_unavailable, 0, m.slot)
    ELSE IF genOutcome = "answer" THEN Asked(FALSE, "answer", MSG_answer, 1, m.slot)
    ELSE Asked(FALSE, "error", MSG_ai_error, 1, m.slot)

\* ------------------------------------------------------------ the page

VARIABLES
    file,            \* TSLA_data.csv
    pc,              \* where the script is: "idle", "load", "chart", "panel",
                     \* "done" (main returned), "raised" (an exception left main)
    runs,            \* page runs started so far
    pressed,         \* whether this run was started by the "Ask AI" button
    button_shown,    \* whether the page shows the "Ask AI" button
    cache_data,      \* st.cache_data slot of load_data: <<>> or <<its result>>
    cache_resource,  \* st.cache_resource slot of init_gemini
    df,              \* main's df
    fig,             \* the figure given to st.plotly_chart in this run
    displayed,       \* the messages displayed in this run, in order
    ai,              \* this run's call of ask_ai: <<>>, or <<the cache slot it
                     \* found, what its two try blocks did, what it came to>>
    requests         \* requests sent to the AI endpoint in this run

vars ==
    <<file, pc, runs, pressed, button_shown, cache_data, cache_resource, df,
      fig, displayed, ai, requests>>

\* The input files.  Short files: every head of at most MaxFileRows lines of
\* RowSamples under the full header.  Long files: no line or one line of
\* RowSamples followed by enough lines of PadRow to fill the chart's window
\* exactly or to overfill it.  And a missing file and the headers that lack
\* a column.
Heads(n) == UNION {[1..k -> {RowSamples[i] : i \in 1..Len(RowSamples)}] : k \in 0..n}

Pads == {max_rows - 1, max_rows}

Files ==
    {File(TRUE, HeaderFull, head, 0) : head \in Heads(MaxFileRows)}
    \cup {File(TRUE, HeaderFull, head, pad) : head \in Heads(1), pad \in Pads}
    \cup {File(TRUE, h, head, 0) : h \in Headers, head \in Heads(1)}
    \cup {File(FALSE, HeaderFull, <<>>, 0)}

Init ==
    /\ file \in Files
    /\ pc = "idle"
    /\ runs = 0
    /\ pressed = FALSE
    /\ button_shown = FALSE
    /\ cache_data = <<>>
    /\ cache_resource = NoCache
    /\ df = <<>>
    /\ fig = NoFigure
    /\ displayed = <<>>
    /\ ai = <<>>
    /\ requests = 0

\* The framework starts a run of the script: the first page load, or a
\* re-run on an interaction, which is a press of the "Ask AI" button only
\* when the page shows that button.
Rerun ==
    /\ pc \in {"idle", "done", "raised"}
    /\ runs < MaxRuns
    /\ runs' = runs + 1
    /\ pressed' \in (IF button_shown THEN BOOLEAN ELSE {FALSE})
    /\ button_shown' = FALSE
    /\ pc' = "load"
    /\ df' = <<>>
    /\ fig' = NoFigure
    /\ displayed' = <<>>
    /\ ai' = <<>>
    /\ requests' = 0
    /\ UNCHANGED <<file, cache_data, cache_resource>>

MSG_could_not_load == "Could not load or process the TSLA_data.csv file."

MSG_success == "Data loaded successfully."

\* The line of line 122-123: the record count and the date range.
MSG_stats == "Records: {len(df)}, Range: {min date} to {max date}"

\* The messages load_data displays (also when its result comes from the
\* cache, which replays them).
LoadMessages(loaded) == IF loaded.error = "" THEN <<>> ELSE <<loaded.error>>

\* main, lines 111-123: load_data behind st.cache_data, then the empty
\* check, which ends the run.
MainLoad ==
    /\ pc = "load"
    /\ \E ties \in TieOrders :
         LET loaded == IF cache_data = <<>> THEN load_data(file, ties) ELSE cache_data[1] IN
         /\ cache_data' = <<loaded>>
         /\ df' = loaded.df
         /\ IF loaded.df = <<>>
            THEN /\ displayed' = displayed \o LoadMessages(loaded) \o <<MSG_could_not_load>>
                 /\ pc' = "done"
            ELSE /\ displayed' =
                      displayed \o LoadMessages(loaded) \o <<MSG_success, MSG_stats>>
                 /\ pc' = "chart"
    /\ UNCHANGED <<file, runs, pressed, button_shown, cache_resource, fig, ai, requests>>

\* main, lines 125-127: the chart of df; a raise in candlestick_chart
\* leaves main.
MainChart ==
    /\ pc = "chart"
    /\ LET c == candlestick_chart(df, max_rows) IN
       /\ df' = c.df
       /\ IF c.raised
          THEN /\ pc' = "raised"
               /\ UNCHANGED fig
          ELSE /\ pc' = "panel"
               /\ fig' = c.fig
    /\ UNCHANGED <<file, runs, pressed, button_shown, cache_data, cache_resource,
                   displayed, ai, requests>>

\* main, lines 129-138: the panel with the button; in a run the button
\* started, ask_ai is called once and what it returns is displayed.
MainPanel ==
    /\ pc = "panel"
    /\ button_shown' = TRUE
    /\ IF pressed
       THEN \E initOutcome \in InitOutcomes, genOutcome \in GenOutcomes :
              LET a == ask_ai(cache_resource, initOutcome, genOutcome) IN
              /\ ai' = <<[slot |-> cache_resource, init |-> initOutcome,
                           gen |-> genOutcome, result |-> a]>>
              /\ requests' = requests + a.requests
              /\ cache_resource' = a.slot
              /\ IF a.raised
                 THEN /\ pc' = "raised"
                      /\ UNCHANGED displayed
                 ELSE /\ pc' = "done"
                      /\ displayed' =
                            displayed \o InitMessages(cache_resource, initOutcome)
                            \o <<a.text>>
       ELSE /\ pc' = "done"
            /\ UNCHANGED <<ai, requests, cache_resource, displayed>>
    /\ UNCHANGED <<file, runs, pressed, cache_data, df, fig>>

Next == Rerun \/ MainLoad \/ MainChart \/ MainPanel

Spec == Init /\ [][Next]_vars

\* ------------------------------------------------------------- properties

\* load_data has returned (its result is in the cache slot).
Returned == cache_data # <<>>

\* load_data has returned and accepted the file: it reported no error.
Accepted == Returned /\ cache_data[1].error = ""

\* The table load_data returned.
Table == cache_data[1].df

\* The data lines of the input file.
Lines == FileRows(file)

\* A field that holds a number: decimal digits, with blanks around them at
\* most.
DigitChars == {"0", "1", "2", "3", "4", "5", "6", "7", "8", "9"}

NumberText(t) ==
    /\ \E i \in 1..Len(t) : t[i] \in DigitChars
    /\ \A i \in 1..Len(t) : t[i] \in DigitChars \cup {" "}
    /\ \A i, j \in 1..Len(t) :
         (i < j /\ t[i] \in DigitChars /\ t[j] \in DigitChars)
            => \A k \in i..j : t[k] \in DigitChars

FourNumeric(line) ==
    /\ NumberText(line.open)
    /\ NumberText(line.high)
    /\ NumberText(line.low)
    /\ NumberText(line.close)

\* C1: in the table of an accepted file every row has all four prices
\* present, and a line of the file is in the table exactly when all four of
\* its price fields hold numbers.
C1_PricesNumeric ==
    Accepted =>
        LET lines == Lines
            kept == {Table[k].idx : k \in 1..Len(Table)}
        IN  /\ \A k \in 1..Len(Table) :
                 ~(Table[k].open.isna \/ Table[k].high.isna
                   \/ Table[k].low.isna \/ Table[k].close.isna)
            /\ \A i \in 1..Len(lines) : (i - 1 \in kept) <=> FourNumeric(lines[i])

\* C1's case: an accepted file of which one line was dropped for a price
\* that is no number, and another line was kept.
C1_Witness ==
    /\ Accepted
    /\ Table # <<>>
    /\ LET lines == Lines IN
       \E i \in 1..Len(lines) :
         /\ ~FourNumeric(lines[i])
         /\ \A k \in 1..Len(Table) : Table[k].idx # i - 1

\* Python's a <= b on two dates: False when either is NaT.
DateLe(a, b) == ~a.isna /\ ~b.isna /\ a.v <= b.v

\* C2 as stated: every two adjacent rows of the returned table satisfy
\* date[i] <= date[i+1].
C2_AdjacentDatesLe ==
    Accepted =>
        \A i \in 1..(Len(Table) - 1) : DateLe(Table[i].date, Table[i + 1].date)

\* C2 amended: the rows that have a date are in ascending date order, and
\* the rows with no date (a missing timestamp) come after all of them.
C2_SortedNaTLast ==
    Accepted =>
        \A i \in 1..(Len(Table) - 1) :
            /\ Table[i].date.isna => Table[i + 1].date.isna
            /\ (~Table[i].date.isna /\ ~Table[i + 1].date.isna)
                  => Table[i].date.v <= Table[i + 1].date.v

\* C2's case: the table holds two dated rows whose file order was the
\* other way round.
C2_Witness ==
    /\ Accepted
    /\ \E i \in 1..(Len(Table) - 1) :
         /\ ~Table[i].date.isna /\ ~Table[i + 1].date.isna
         /\ Table[i].date.v < Table[i + 1].date.v
         /\ Table[i].idx > Table[i + 1].idx

\* A file nothing but a support / resistance cell could make load_data
\* fail on: it exists, has every column, and its timestamps are dates or
\* missing.
DateText(t) == t = <<>> \/ \A i \in 1..Len(t) : t[i] \in DigitChars

Loadable(f) ==
    /\ f.exists
    /\ f.header = HeaderFull
    /\ LET lines == FileRows(f) IN
       \A i \in 1..Len(lines) : DateText(lines[i].timestamp)

\* A cell with no literal in it: not text (missing, or a number of a
\* numeric column), or text that is no literal.
NoLiteral(text, columnIsText) ==
    ~columnIsText \/ text = <<>> \/ ~literal_eval(text).ok

EmptyList == PyList(<<>>)

\* C3: a support or resistance cell with no literal in it gives its row the
\* empty list, load_data still returns the table, and the cells that do
\* hold a literal give their rows that literal's value.
C3_UnparseableIsEmpty ==
    (Returned /\ Loadable(file)) =>
        /\ Accepted
        /\ LET lines == Lines
               supText == SupportIsText(lines)
               resText == ResistanceIsText(lines)
           IN  \A k \in 1..Len(Table) :
                 LET line == lines[Table[k].idx + 1] IN
                 /\ IF NoLiteral(line.support, supText)
                    THEN Table[k].support_list = EmptyList
                    ELSE Table[k].support_list = literal_eval(line.support).value
                 /\ IF NoLiteral(line.resistance, resText)
                    THEN Table[k].resistance_list = EmptyList
                    ELSE Table[k].resistance_list = literal_eval(line.resistance).value

\* C3's case: the table holds a row whose support text is no literal and
\* whose resistance cell is missing, next to a row with parsed levels.
C3_Witness ==
    /\ Accepted
    /\ LET lines == Lines IN
       \E k \in 1..Len(Table) :
         /\ lines[Table[k].idx + 1].support # <<>>
         /\ ~literal_eval(lines[Table[k].idx + 1].support).ok
         /\ lines[Table[k].idx + 1].resistance = <<>>
         /\ Table[k].support_list = EmptyList
    /\ \E k \in 1..Len(Table) : Table[k].support_list.items # <<>>

Enumeration == {TXT_LONG, TXT_SHORT, TXT_NONE}

\* C4 as stated: whatever the direction cell held, the row's direction is
\* one of LONG, SHORT, NONE.
C4_DirectionInEnumeration ==
    Accepted => \A k \in 1..Len(Table) : Table[k].direction \in Enumeration

\* A direction cell that spells long, short or none in some letter case.
SpellsDirection(cell) ==
    str_lower(cell) \in {<<"l", "o", "n", "g">>, <<"s", "h", "o", "r", "t">>,
                         <<"n", "o", "n", "e">>}

\* C4 amended: a row's direction is one of LONG, SHORT, NONE exactly when
\* its cell is missing or spells one of the three in some letter case; the
\* direction then is that word in capitals (NONE for a missing cell), and
\* any other text stays, in capitals, outside the enumeration.
C4_CaseNormalized ==
    Accepted =>
        LET lines == Lines IN
        \A k \in 1..Len(Table) :
            LET cell == lines[Table[k].idx + 1].direction IN
            /\ Table[k].direction \in Enumeration
                  <=> (cell = <<>> \/ SpellsDirection(cell))
            /\ cell = <<>> => Table[k].direction = TXT_NONE
            /\ str_lower(Table[k].direction) = str_lower(IF cell = <<>> THEN TXT_NONE ELSE cell)
            /\ \A i \in 1..Len(Table[k].direction) :
                  Table[k].direction[i] \notin {LowerCase[j] : j \in 1..Len(LowerCase)}

\* C4's case: a row whose cell was written in mixed case and came out in
\* capitals, next to a row whose cell was missing.
C4_Witness ==
    /\ Accepted
    /\ LET lines == Lines IN
       /\ \E k \in 1..Len(Table) :
            /\ Table[k].direction = TXT_SHORT
            /\ lines[Table[k].idx + 1].direction # TXT_SHORT
       /\ \E k \in 1..Len(Table) : lines[Table[k].idx + 1].direction = <<>>

\* The chart of this run has been drawn.
Charted == pc \in {"panel", "done"} /\ df # <<>>

\* The index labels of the last 100 rows of main's table.
Recent == {df[k].idx : k \in {j \in 1..Len(df) : j > Len(df) - 100}}

\* C5: every rectangle and every marker of the chart belongs to one of the
\* last 100 rows of the table.
C5_OnlyRecentRows ==
    Charted =>
        LET recent == Recent IN
        /\ \A i \in 1..Len(fig.shapes) : fig.shapes[i].row \in recent
        /\ \A t \in 1..Len(fig.traces) :
             \A i \in 1..Len(fig.traces[t].points) :
                 fig.traces[t].points[i].row \in recent

\* C5's case: a chart with rectangles and markers over a table of more than
\* 100 rows, the oldest of which has support levels and a direction of the
\* enumeration.
C5_Witness ==
    /\ Charted
    /\ Len(df) > 100
    /\ fig.shapes # <<>>
    /\ fig.traces # <<>>
    /\ df[1].idx \notin Recent
    /\ df[1].support_list.items # <<>>
    /\ df[1].direction \in Enumeration

\* The call of ask_ai met a failure: no client (the cached None, or a body
\* of init_gemini that raised), or a raise in the request.
AiFailed(call) ==
    \/ call.slot = <<"None">>
    \/ call.slot = NoCache /\ call.init # "ok"
    \/ call.gen # "answer"

C7_NothingEscapesMain == pc # "raised"

\* C8: once load_data has returned the table it stays as it is, in the
\* cache and in main's hands, through chart, panel, AI question and re-run.
C8_TableNeverMutated ==
    /\ [](pc \in {"chart", "panel", "done", "raised"} => df = Table)
    /\ [][Returned => cache_data' = cache_data]_vars

\* C8's case: a second run has shown the chart of a table of more than 100
\* rows and asked the AI.
C8_Witness ==
    /\ pc = "done"
    /\ runs >= 2
    /\ ai # <<>>
    /\ Len(df) > max_rows
    /\ fig.shapes # <<>>

\* A collection of numeric levels: a list of ints.
Levels(v) ==
    v.kind = "list" /\ \A i \in 1..Len(v.items) : v.items[i].kind = "int"

\* C9: every row's support and resistance values are lists of numbers, and
\* every band of the chart runs from a number to a number not below it.
C9_NumericLevels ==
    /\ Returned =>
         \A k \in 1..Len(Table) :
             Levels(Table[k].support_list) /\ Levels(Table[k].resistance_list)
    /\ \A i \in 1..Len(fig.shapes) :
         /\ fig.shapes[i].y0.kind = "int"
         /\ fig.shapes[i].y1.kind = "int"
         /\ fig.shapes[i].y0.val <= fig.shapes[i].y1.val

\* C10: a run sends at most one request to the AI endpoint, and only when
\* the table is not empty and the button started the run; a failed request
\* is not sent again; with an empty table main stops after the could-not-
\* load message, draws no chart and asks nothing.
C10_OneRequestPerSubmit ==
    /\ requests <= 1
    /\ requests >= 1 => (pressed /\ df # <<>> /\ ai # <<>>)
    /\ ai # <<>> => (pressed /\ df # <<>>)
    /\ (pc \in {"chart", "panel"}) => df # <<>>
    /\ (pc = "done" /\ df = <<>>) =>
         /\ displayed[Len(displayed)] = MSG_could_not_load
         /\ fig = NoFigure
         /\ ~button_shown
         /\ ai = <<>>
         /\ requests = 0

\* C10's case: the one request of a submit failed and the run ended with
\* its error displayed.
C10_Witness ==
    /\ pc = "done"
    /\ pressed
    /\ requests = 1
    /\ ai[1].result.kind = "error"
    /\ displayed[Len(displayed)] = MSG_ai_error

====
